---- MODULE Spec2Model ----
(***************************************************************************)
(* The Gamma distribution of statrs (src/src/distribution/gamma.rs):       *)
(* the validated constructor, cdf, pdf, ln_pdf and the Marsaglia-Tsang      *)
(* sampler sample_unchecked.                                                *)
(*                                                                         *)
(* f64 values.  An f64 is a record [t, s, m, e, u]:                        *)
(*   t = "nan" | "inf" | "zero" | "num";  s = 1 or -1 is the sign;         *)
(*   for "num" the value is  s * (m / Mant) * 2^e  with Mant <= m < 2*Mant *)
(*   and MinExp <= e <= MaxExp (the exponent range of an f64, so overflow   *)
(*   to infinity and underflow to zero happen where they do in the code);   *)
(*   u is an offset in units in the last place of the f64, used for inputs  *)
(*   such as 1.0 + 3 ulp that differ from a grid value by a few ulps.       *)
(* Arithmetic keeps MantBits bits of significand (an f64 keeps 52), rounds  *)
(* toward zero and drops u; a negative zero is not distinguished from zero. *)
(***************************************************************************)
EXTENDS Integers, Sequences, FiniteSets, TLC

MantBits == 14
Mant == 2 ^ MantBits
MaxExp == 1023
MinExp == -1074

F64(t, s, m, e, u) == [t |-> t, s |-> s, m |-> m, e |-> e, u |-> u]
NaN == F64("nan", 1, 0, 0, 0)
PInf == F64("inf", 1, 0, 0, 0)
NInf == F64("inf", -1, 0, 0, 0)
Zero == F64("zero", 1, 0, 0, 0)
Inf(s) == IF s > 0 THEN PInf ELSE NInf

AbsI(i) == IF i < 0 THEN -i ELSE i
SgnI(i) == IF i < 0 THEN -1 ELSE 1
MaxI(i, j) == IF i >= j THEN i ELSE j
MinI(i, j) == IF i <= j THEN i ELSE j

RECURSIVE Norm(_, _, _)
\* The f64 nearest zero-ward to s * (m / Mant) * 2^e for an integer m >= 0.
Norm(s, m, e) ==
    IF m = 0 THEN Zero
    ELSE IF m >= 2 * Mant THEN Norm(s, m \div 2, e + 1)
    ELSE IF m < Mant THEN Norm(s, m * 2, e - 1)
    ELSE IF e > MaxExp THEN Inf(s)
    ELSE IF e < MinExp THEN Zero
    ELSE F64("num", s, m, e, 0)

\* A small integer as an f64 value.
FromInt(i) == Norm(SgnI(i), AbsI(i) * Mant, 0)
\* x moved by k units in the last place.
Ulp(x, k) == [x EXCEPT !.u = k]
One == FromInt(1)
Two == FromInt(2)
Half == F64("num", 1, Mant, -1, 0)
Eight == FromInt(8)
Twelve == FromInt(12)
ThreeSixty == FromInt(360)

is_nan(x) == x.t = "nan"
is_infinite(x) == x.t = "inf"
IsNum(x) == x.t = "num"
IsZero(x) == x.t = "zero"

Neg(x) == IF x.t \in {"nan", "zero"} THEN x ELSE [x EXCEPT !.s = -x.s, !.u = -x.u]
Abs(x) == IF x.s < 0 THEN Neg(x) ELSE x

\* -1, 0, 1 as x is below, equal to or above y; neither is NaN.
Rank(x) == IF x.t = "inf" THEN 3 * x.s ELSE IF x.t = "zero" THEN 0 ELSE x.s
CmpMag(x, y) ==
    IF x.e # y.e THEN (IF x.e < y.e THEN -1 ELSE 1)
    ELSE IF x.m # y.m THEN (IF x.m < y.m THEN -1 ELSE 1)
    ELSE 0
Cmp(x, y) ==
    IF Rank(x) # Rank(y) THEN (IF Rank(x) < Rank(y) THEN -1 ELSE 1)
    ELSE IF x.t # "num" THEN 0
    ELSE IF CmpMag(x, y) # 0 THEN x.s * CmpMag(x, y)
    ELSE IF x.u # y.u THEN (IF x.u < y.u THEN -1 ELSE 1)
    ELSE 0

Lt(x, y) == ~is_nan(x) /\ ~is_nan(y) /\ Cmp(x, y) < 0
Le(x, y) == ~is_nan(x) /\ ~is_nan(y) /\ Cmp(x, y) <= 0
Gt(x, y) == Lt(y, x)
Ge(x, y) == Le(y, x)
Eq(x, y) == ~is_nan(x) /\ ~is_nan(y) /\ Cmp(x, y) = 0

Pow2(k) == 2 ^ k

FracBits == 52

\* The sum of two numbers.  Operands that cancel in significand and exponent
\* leave the difference of their offsets, in units in the last place.
AddNum(x, y) ==
    LET hi == IF CmpMag(x, y) >= 0 THEN x ELSE y
        lo == IF CmpMag(x, y) >= 0 THEN y ELSE x
        de == hi.e - lo.e
    IN  IF de > MantBits + 1 THEN hi
        ELSE IF de = 0 /\ hi.m = lo.m /\ hi.s # lo.s
        THEN Norm(SgnI(hi.u + lo.u), AbsI(hi.u + lo.u) * Mant, hi.e - FracBits)
        ELSE LET sum == hi.s * hi.m * Pow2(de) + lo.s * lo.m
             IN  Norm(SgnI(sum), AbsI(sum), lo.e)

Add(x, y) ==
    IF is_nan(x) \/ is_nan(y) THEN NaN
    ELSE IF is_infinite(x) THEN (IF is_infinite(y) /\ y.s # x.s THEN NaN ELSE x)
    ELSE IF is_infinite(y) THEN y
    ELSE IF IsZero(x) THEN y
    ELSE IF IsZero(y) THEN x
    ELSE AddNum(x, y)

Sub(x, y) == Add(x, Neg(y))

Mul(x, y) ==
    IF is_nan(x) \/ is_nan(y) THEN NaN
    ELSE IF is_infinite(x) \/ is_infinite(y)
         THEN (IF IsZero(x) \/ IsZero(y) THEN NaN ELSE Inf(x.s * y.s))
    ELSE IF IsZero(x) \/ IsZero(y) THEN Zero
    ELSE Norm(x.s * y.s, (x.m * y.m) \div Mant, x.e + y.e)

Div(x, y) ==
    IF is_nan(x) \/ is_nan(y) THEN NaN
    ELSE IF is_infinite(x) THEN (IF is_infinite(y) THEN NaN ELSE Inf(x.s * y.s))
    ELSE IF is_infinite(y) THEN Zero
    ELSE IF IsZero(y) THEN (IF IsZero(x) THEN NaN ELSE Inf(x.s))
    ELSE IF IsZero(x) THEN Zero
    ELSE Norm(x.s * y.s, (x.m * Mant) \div y.m, x.e - y.e)

\* A ratio of two small integers.
Rat(p, q) == Div(FromInt(p), FromInt(q))

RECURSIVE ISqrt(_, _, _)
\* The integer square root of n, by bisection on [lo, hi).
ISqrt(n, lo, hi) ==
    IF hi - lo <= 1 THEN lo
    ELSE LET mid == (lo + hi) \div 2
         IN  IF mid * mid <= n THEN ISqrt(n, mid, hi) ELSE ISqrt(n, lo, mid)

Sqrt(x) ==
    IF is_nan(x) THEN NaN
    ELSE IF IsZero(x) THEN Zero
    ELSE IF x.s < 0 THEN NaN
    ELSE IF is_infinite(x) THEN PInf
    ELSE LET odd == x.e % 2 = 1
             mm == IF odd THEN 2 * x.m ELSE x.m
             ee == IF odd THEN x.e - 1 ELSE x.e
         IN  Norm(1, ISqrt(mm * Mant, 0, 4 * Mant), ee \div 2)

\* Fixed-point helpers: an integer i stands for i / Mant.
FMul(i, j) == (i * j) \div Mant
Ln2F == 11357
FromFixed(i) == Norm(SgnI(i), AbsI(i), 0)
ToFixed(x) ==
    IF ~IsNum(x) THEN 0
    ELSE IF x.e >= 0 THEN x.s * x.m * Pow2(x.e)
    ELSE IF -x.e > MantBits + 1 THEN 0
    ELSE x.s * (x.m \div Pow2(-x.e))

\* ln(m / Mant) for Mant <= m < 2 * Mant, in fixed point: 2 atanh((z-1)/(z+1)).
LnMant(m) ==
    LET y == ((m - Mant) * Mant) \div (m + Mant)
        y2 == FMul(y, y)
        y3 == FMul(y, y2)
        y5 == FMul(y3, y2)
        y7 == FMul(y5, y2)
        y9 == FMul(y7, y2)
    IN  2 * (y + y3 \div 3 + y5 \div 5 + y7 \div 7 + y9 \div 9)

Ln(x) ==
    IF is_nan(x) THEN NaN
    ELSE IF IsZero(x) THEN NInf
    ELSE IF x.s < 0 THEN NaN
    ELSE IF is_infinite(x) THEN PInf
    ELSE FromFixed(x.e * Ln2F + LnMant(x.m))

RECURSIVE ExpSeries(_, _, _, _)
\* The Taylor series of e^r from term number k on, in fixed point.
ExpSeries(r, term, k, n) ==
    IF k > n \/ term = 0 THEN 0
    ELSE term + ExpSeries(r, FMul(term, r) \div (k + 1), k + 1, n)

Exp(x) ==
    IF is_nan(x) THEN NaN
    ELSE IF IsZero(x) THEN One
    ELSE IF is_infinite(x) THEN (IF x.s > 0 THEN PInf ELSE Zero)
    ELSE IF x.e >= 11 THEN (IF x.s > 0 THEN PInf ELSE Zero)
    ELSE LET f == ToFixed(x)
             k == f \div Ln2F
             r == f - k * Ln2F
         IN  Norm(1, ExpSeries(r, Mant, 0, 10), k)

\* powf for a base that is NaN or not negative, as every call of it here has.
Powf(x, y) ==
    IF IsZero(y) THEN One
    ELSE IF Eq(x, One) THEN One
    ELSE IF is_nan(x) \/ is_nan(y) THEN NaN
    ELSE IF x.s < 0 THEN NaN
    ELSE IF IsZero(x) THEN (IF y.s > 0 THEN Zero ELSE PInf)
    ELSE IF is_infinite(x) THEN (IF y.s > 0 THEN PInf ELSE Zero)
    ELSE IF is_infinite(y)
         THEN (IF (Lt(x, One) /\ y.s > 0) \/ (Gt(x, One) /\ y.s < 0) THEN Zero ELSE PInf)
    ELSE Exp(Mul(y, Ln(x)))

(***************************************************************************)
(* The special functions of crate::function::gamma, which lie outside the  *)
(* source file: ln_gamma by Stirling's series above 8 and the recurrence    *)
(* below it, gamma as its exponential, and gamma_lr, the regularized lower  *)
(* incomplete gamma function P(a, x), by its power series for x < a + 1 and *)
(* the continued fraction of its complement for x >= a + 1.                 *)
(***************************************************************************)
HalfLn2Pi == Rat(9189, 10000)
SeriesEps == Rat(1, 8192)
SeriesMax == 400
Tiny == Norm(1, Mant, -1000)

Stirling(x) ==
    LET x3 == Mul(x, Mul(x, x))
    IN  Add(Add(Sub(Mul(Sub(x, Half), Ln(x)), x), HalfLn2Pi),
            Sub(Div(One, Mul(Twelve, x)), Div(One, Mul(ThreeSixty, x3))))

RECURSIVE LnGammaPos(_)
LnGammaPos(x) ==
    IF Ge(x, Eight) THEN Stirling(x)
    ELSE Sub(LnGammaPos(Add(x, One)), Ln(x))

ln_gamma(x) ==
    IF is_nan(x) THEN NaN
    ELSE IF is_infinite(x) THEN (IF x.s > 0 THEN PInf ELSE NaN)
    ELSE IF IsZero(x) THEN PInf
    ELSE IF x.s < 0 THEN NaN
    ELSE LnGammaPos(x)

gamma_fn(x) == IF IsZero(x) THEN PInf ELSE Exp(ln_gamma(x))

RECURSIVE GSer(_, _, _, _, _)
\* sum_{n >= 0} x^n / (a (a+1) ... (a+n)), from the term del at a + n = ap.
GSer(x, ap, del, sum, n) ==
    IF n >= SeriesMax \/ Le(Abs(del), Mul(Abs(sum), SeriesEps)) THEN sum
    ELSE LET ap1 == Add(ap, One)
             del1 == Mul(del, Div(x, ap1))
         IN  GSer(x, ap1, del1, Add(sum, del1), n + 1)

Floor0(z) == IF Lt(Abs(z), Tiny) THEN Tiny ELSE z

RECURSIVE GCf(_, _, _, _, _, _)
\* The modified Lentz evaluation of the continued fraction of Q(a, x).
GCf(a, b, c, d, h, i) ==
    LET an == Neg(Mul(FromInt(i), Sub(FromInt(i), a)))
        b1 == Add(b, Two)
        d1 == Div(One, Floor0(Add(Mul(an, d), b1)))
        c1 == Floor0(Add(b1, Div(an, c)))
        del == Mul(d1, c1)
        h1 == Mul(h, del)
    IN  IF i >= SeriesMax \/ Le(Abs(Sub(del, One)), SeriesEps) THEN h1
        ELSE GCf(a, b1, c1, d1, h1, i + 1)

Clamp01(z) == IF Lt(z, Zero) THEN Zero ELSE IF Gt(z, One) THEN One ELSE z

ExpUnderflow == Rat(-7098, 10)

gamma_lr(a, x) ==
    IF is_nan(a) \/ is_nan(x) THEN NaN
    ELSE IF Le(x, Zero) THEN Zero
    ELSE IF is_infinite(a) THEN Zero
    ELSE IF is_infinite(x) THEN One
    ELSE LET ax == Sub(Sub(Mul(a, Ln(x)), x), ln_gamma(a))
             b == Sub(Add(x, One), a)
             d == Div(One, b)
         IN  IF Lt(ax, ExpUnderflow) THEN (IF Lt(a, x) THEN One ELSE Zero)
             ELSE IF Lt(x, Add(a, One))
             THEN Clamp01(Mul(Exp(ax), GSer(x, a, Div(One, a), Div(One, a), 0)))
             ELSE Clamp01(Sub(One, Mul(Exp(ax), GCf(a, b, Div(One, Tiny), d, d, 1))))

(***************************************************************************)
(* ulps_eq!(x, y) of the approx crate with its defaults: true when          *)
(* |x - y| <= f64::EPSILON, false when the signs differ, and otherwise true  *)
(* when the two bit patterns are at most max_ulps = 4 apart.  Two values     *)
(* with different (s, m, e) are at least 2^(52 - MantBits) ulps apart; two   *)
(* with the same (s, m, e) are |x.u - y.u| ulps of 2^(e - 52) apart.         *)
(***************************************************************************)
MaxUlps == 4
EPSILON == Norm(1, Mant, -FracBits)

abs_diff_eq(x, y) == Le(Abs(Sub(x, y)), EPSILON)

ulps_eq(x, y) ==
    IF abs_diff_eq(x, y) THEN TRUE
    ELSE IF is_nan(x) \/ is_nan(y) THEN FALSE
    ELSE IF x.s # y.s THEN FALSE
    ELSE IF x.t # y.t THEN FALSE
    ELSE IF ~IsNum(x) THEN TRUE
    ELSE CmpMag(x, y) = 0 /\ AbsI(x.u - y.u) <= MaxUlps

(***************************************************************************)
(* struct Gamma { shape, rate } and Gamma::new.                             *)
(***************************************************************************)
Gamma(shape, rate) == [shape |-> shape, rate |-> rate]
NoGamma == Gamma(NaN, NaN)
Ok(g) == [ok |-> TRUE, g |-> g, err |-> "none"]
Err(e) == [ok |-> FALSE, g |-> NoGamma, err |-> e]
NotCalled == Err("none")

\* Variant accepting a zero parameter (< where the code has <=).
new_strict(shape, rate) ==
    LET nan == is_nan(shape) \/ is_nan(rate)
    IN  IF nan THEN Err("BadParams")
        ELSE IF Lt(shape, Zero) \/ Lt(rate, Zero) THEN Err("BadParams")
        ELSE Ok(Gamma(shape, rate))

new(shape, rate) ==
    LET nan == is_nan(shape) \/ is_nan(rate)
    IN  IF nan THEN Err("BadParams")
        ELSE IF Le(shape, Zero) \/ Le(rate, Zero) THEN Err("BadParams")
        ELSE Ok(Gamma(shape, rate))

shape(g) == g.shape
rate(g) == g.rate

(***************************************************************************)
(* ContinuousCDF::cdf and Continuous::pdf, ln_pdf.                          *)
(***************************************************************************)
\* Variant testing the infinite rate before the point mass at the shape.
cdf_infinite_first(g, x) ==
    IF Le(x, Zero) THEN Zero
    ELSE IF is_infinite(g.rate) THEN Zero
    ELSE IF ulps_eq(x, g.shape) /\ is_infinite(g.rate) THEN One
    ELSE IF is_infinite(x) THEN One
    ELSE gamma_lr(g.shape, Mul(x, g.rate))

cdf(g, x) ==
    IF Le(x, Zero) THEN Zero
    ELSE IF ulps_eq(x, g.shape) /\ is_infinite(g.rate) THEN One
    ELSE IF is_infinite(g.rate) THEN Zero
    ELSE IF is_infinite(x) THEN One
    ELSE gamma_lr(g.shape, Mul(x, g.rate))

ln_pdf(g, x) ==
    IF Lt(x, Zero) THEN NInf
    ELSE IF ulps_eq(g.shape, One) THEN Sub(Ln(g.rate), Mul(g.rate, x))
    ELSE IF is_infinite(x) THEN NInf
    ELSE Sub(Sub(Add(Mul(g.shape, Ln(g.rate)), Mul(Sub(g.shape, One), Ln(x))),
                 Mul(g.rate, x)),
             ln_gamma(g.shape))

LargeShape == FromInt(160)

\* Variant taking the logarithmic route from shape = 160 on (>= for >).
pdf_large_inclusive(g, x) ==
    IF Lt(x, Zero) THEN Zero
    ELSE IF ulps_eq(g.shape, One) THEN Mul(g.rate, Exp(Mul(Neg(g.rate), x)))
    ELSE IF Ge(g.shape, LargeShape) THEN Exp(ln_pdf(g, x))
    ELSE IF is_infinite(x) THEN Zero
    ELSE Div(Mul(Mul(Powf(g.rate, g.shape), Powf(x, Sub(g.shape, One))),
                 Exp(Mul(Neg(g.rate), x))),
             gamma_fn(g.shape))

pdf(g, x) ==
    IF Lt(x, Zero) THEN Zero
    ELSE IF ulps_eq(g.shape, One) THEN Mul(g.rate, Exp(Mul(Neg(g.rate), x)))
    ELSE IF Gt(g.shape, LargeShape) THEN Exp(ln_pdf(g, x))
    ELSE IF is_infinite(x) THEN Zero
    ELSE Div(Mul(Mul(Powf(g.rate, g.shape), Powf(x, Sub(g.shape, One))),
                 Exp(Mul(Neg(g.rate), x))),
             gamma_fn(g.shape))

(***************************************************************************)
(* sample_unchecked: the expressions of the Marsaglia-Tsang sampler.        *)
(***************************************************************************)
Third == Div(One, FromInt(3))
Nine == FromInt(9)
K0331 == Rat(331, 10000)

\* Variant boosting shape = 1 as well.
NeedsBoost_inclusive(s) == Le(s, One)

\* shape < 1.0: the shape is boosted by one and corrected by afix.
NeedsBoost(s) == Lt(s, One)
BoostedShape(s) == IF NeedsBoost(s) THEN Add(s, One) ELSE s
InitialAfix == One
Afix(u0, s) == Powf(u0, Div(One, s))
\* Variant with the operands of the subtraction exchanged.
D_reversed(a0) == Sub(Third, a0)
D(a0) == Sub(a0, Third)
C(d0) == Div(One, Sqrt(Mul(Nine, d0)))
V(c0, z) == Add(One, Mul(c0, z))
\* Variant leaving the inner loop on the wrong side.
InnerExit_reversed(v0) == Lt(v0, Zero)

\* if v > 0.0 { break }
InnerExit(v0) == Gt(v0, Zero)
Cube(v0) == Mul(v0, Mul(v0, v0))
Square(z) == Mul(z, z)
\* The test of line 316, on the squared x and the cubed v.
FastAccept(u0, x0) == Lt(u0, Sub(One, Mul(Mul(K0331, x0), x0)))
\* Variant squaring the squared draw once more in the logarithmic bound.
SlowAccept_squared(u0, x0, v0, d0) ==
    Lt(Ln(u0), Add(Mul(Half, Mul(x0, x0)), Mul(d0, Sub(Sub(One, v0), Ln(v0)))))

SlowAccept(u0, x0, v0, d0) ==
    Lt(Ln(u0), Add(Mul(Half, x0), Mul(d0, Sub(Sub(One, v0), Ln(v0)))))
Accept(u0, x0, v0, d0) == FastAccept(u0, x0) \/ SlowAccept(u0, x0, v0, d0)
Variate(afix0, d0, v0, r) == Div(Mul(Mul(afix0, d0), v0), r)

(***************************************************************************)
(* Inputs.                                                                  *)
(***************************************************************************)
MinPositive == Norm(1, Mant, MinExp)
Huge == Norm(1, Mant, 600)

Shapes == {NaN, NInf, FromInt(-1), Zero, MinPositive, Rat(1, 2), One, Ulp(One, 3),
           Ulp(One, 5), FromInt(2), FromInt(160), FromInt(161), PInf}
Rates == {NaN, FromInt(-1), Zero, Rat(1, 2), One, FromInt(2), Huge, PInf}
Xs == {NaN, NInf, FromInt(-1), Zero, Rat(1, 2), One, FromInt(2), Ulp(FromInt(2), 3),
       Ulp(FromInt(2), 5), FromInt(160), PInf}

MaxShape == Norm(1, Mant, MaxExp)
SampleShapes == {Half, One, MaxShape, PInf}
SampleRates == {Two, PInf}
Uniforms == {Zero, Rat(1, 100), Half}
ReplayShapes == {Half, One}
ReplayRates == {Two}
ReplayUniforms == {Zero, Half}
ReplayNormals == {FromInt(-4), Zero, FromInt(3)}
Normals == {FromInt(-4), Zero, Two, FromInt(3)}
MaxDraws == 4

(***************************************************************************)
(* State: the result of the last Gamma::new with its arguments, the last    *)
(* query made of the constructed value, and the cdf query before it.        *)
(* The sampler's call: pc is the place of the call ("idle", "afix" before   *)
(* the uniform draw of line 297, "normal" before a draw of line 306,        *)
(* "uniform" before the draw of line 315, "done" after the return), sshape  *)
(* and srate its arguments, a, afix, d, c, x, v, u its locals (Unset while  *)
(* not assigned), ret the returned value.  draws is the list of the draws   *)
(* the call has taken from the random source, kept up to MaxDraws entries,  *)
(* ndraws their number up to MaxDraws + 1.  saved is the first completed    *)
(* call, as its arguments, its draws and its result, and before the shape   *)
(* of the call that preceded the current one.                               *)
(***************************************************************************)
VARIABLES args, res, q, prev,
          pc, sshape, srate, a, afix, d, c, x, v, u, ret, draws, ndraws, saved,
          before

avars == <<args, res, q, prev>>
svars == <<pc, sshape, srate, a, afix, d, c, x, v, u, ret, draws, ndraws, saved,
           before>>
vars == <<args, res, q, prev,
          pc, sshape, srate, a, afix, d, c, x, v, u, ret, draws, ndraws, saved,
          before>>

Query(op, x0, r) == [op |-> op, x |-> x0, ret |-> r]
NoQuery == Query("none", NaN, NaN)
Unset == NaN
Draw(k, val) == [k |-> k, val |-> val]
Call(s, r, ds, out) == [shape |-> s, rate |-> r, draws |-> ds, ret |-> out]
NoCall == Call(NaN, NaN, <<>>, NaN)
Untracked == Call(Zero, Zero, <<>>, NaN)

SamplerIdle ==
    /\ pc = "idle"
    /\ sshape = Unset /\ srate = Unset
    /\ a = Unset /\ afix = Unset /\ d = Unset /\ c = Unset
    /\ x = Unset /\ v = Unset /\ u = Unset /\ ret = Unset
    /\ draws = <<>> /\ ndraws = 0
    /\ before = Unset

Init ==
    /\ args = NoGamma
    /\ res = NotCalled
    /\ q = NoQuery
    /\ prev = NoQuery
    /\ SamplerIdle
    /\ saved = NoCall

\* One behaviour follows one binding  let n = Gamma::new(shape, rate).
New(s, r) ==
    /\ res = NotCalled
    /\ args' = Gamma(s, r)
    /\ res' = new(s, r)
    /\ q' = NoQuery
    /\ prev' = NoQuery
    /\ UNCHANGED svars

Cdf(x0) ==
    /\ res.ok
    /\ q' = Query("cdf", x0, cdf(res.g, x0))
    /\ prev' = NoQuery
    /\ UNCHANGED <<args, res>>
    /\ UNCHANGED svars

\* A second and later cdf evaluation by a caller that keeps the one before.
CdfNext(x0) ==
    /\ res.ok
    /\ q.op = "cdf"
    /\ q' = Query("cdf", x0, cdf(res.g, x0))
    /\ prev' = q
    /\ UNCHANGED <<args, res>>
    /\ UNCHANGED svars

Pdf(x0) ==
    /\ res.ok
    /\ q' = Query("pdf", x0, pdf(res.g, x0))
    /\ prev' = NoQuery
    /\ UNCHANGED <<args, res>>
    /\ UNCHANGED svars

LnPdf(x0) ==
    /\ res.ok
    /\ q' = Query("ln_pdf", x0, ln_pdf(res.g, x0))
    /\ prev' = NoQuery
    /\ UNCHANGED <<args, res>>
    /\ UNCHANGED svars

Next ==
    \/ \E s \in Shapes, r \in Rates : New(s, r)
    \/ \E x0 \in Xs : Cdf(x0)
    \/ \E x0 \in Xs : Pdf(x0)
    \/ \E x0 \in Xs : LnPdf(x0)

Spec == Init /\ [][Next]_vars

CdfStep ==
    \/ \E s \in Shapes, r \in Rates : New(s, r)
    \/ \E x0 \in Xs : Cdf(x0)
    \/ \E x0 \in Xs : CdfNext(x0)

CdfSpec == Init /\ [][CdfStep]_vars

(***************************************************************************)
(* The sampler, one action for each draw from the random source.            *)
(***************************************************************************)
Took(k, val) ==
    /\ draws' = IF ndraws < MaxDraws THEN Append(draws, Draw(k, val)) ELSE draws
    /\ ndraws' = IF ndraws <= MaxDraws THEN ndraws + 1 ELSE ndraws

\* Variant in which afix survives from the preceding call.
Enter_stale(s, r) ==
    /\ pc \in {"idle", "done"}
    /\ sshape' = s
    /\ srate' = r
    /\ a' = BoostedShape(s)
    /\ afix' = IF pc = "done" THEN afix ELSE InitialAfix
    /\ IF NeedsBoost(s)
       THEN /\ pc' = "afix"
            /\ d' = Unset
            /\ c' = Unset
       ELSE /\ pc' = "normal"
            /\ d' = D(BoostedShape(s))
            /\ c' = C(D(BoostedShape(s)))
    /\ x' = Unset /\ v' = Unset /\ u' = Unset /\ ret' = Unset
    /\ draws' = <<>>
    /\ ndraws' = 0
    /\ before' = sshape
    /\ UNCHANGED saved

\* Lines 293-301 up to the first draw: with shape < 1 the call stops before
\* rng.gen(), otherwise it goes on to d and c and the loop.
Enter(s, r) ==
    /\ pc \in {"idle", "done"}
    /\ sshape' = s
    /\ srate' = r
    /\ a' = BoostedShape(s)
    /\ afix' = InitialAfix
    /\ IF NeedsBoost(s)
       THEN /\ pc' = "afix"
            /\ d' = Unset
            /\ c' = Unset
       ELSE /\ pc' = "normal"
            /\ d' = D(BoostedShape(s))
            /\ c' = C(D(BoostedShape(s)))
    /\ x' = Unset /\ v' = Unset /\ u' = Unset /\ ret' = Unset
    /\ draws' = <<>>
    /\ ndraws' = 0
    /\ before' = sshape
    /\ UNCHANGED saved

SampleUnchecked(s, r) ==
    /\ Enter(s, r)
    /\ UNCHANGED avars

\* Distribution::sample of a constructed Gamma.
Sample ==
    /\ res.ok
    /\ Enter(res.g.shape, res.g.rate)
    /\ UNCHANGED avars

\* Line 297, then lines 300-301.
GenAfix(u0) ==
    /\ pc = "afix"
    /\ afix' = Afix(u0, sshape)
    /\ d' = D(a)
    /\ c' = C(D(a))
    /\ pc' = "normal"
    /\ Took("U", u0)
    /\ UNCHANGED <<sshape, srate, a, x, v, u, ret, saved, before>>
    /\ UNCHANGED avars

\* Lines 306-310: one pass of the inner loop.
NormalDraw(z) ==
    /\ pc = "normal"
    /\ x' = z
    /\ v' = V(c, z)
    /\ u' = Unset
    /\ pc' = IF InnerExit(V(c, z)) THEN "uniform" ELSE "normal"
    /\ Took("N", z)
    /\ UNCHANGED <<sshape, srate, a, afix, d, c, ret, saved, before>>
    /\ UNCHANGED avars

\* Lines 313-318.
UniformDraw(u0) ==
    /\ pc = "uniform"
    /\ v' = Cube(v)
    /\ x' = Square(x)
    /\ u' = u0
    /\ Took("U", u0)
    /\ IF Accept(u0, Square(x), Cube(v), d)
       THEN /\ ret' = Variate(afix, d, Cube(v), srate)
            /\ pc' = "done"
            /\ saved' = IF saved = NoCall /\ ndraws < MaxDraws
                        THEN Call(sshape, srate, Append(draws, Draw("U", u0)),
                                  Variate(afix, d, Cube(v), srate))
                        ELSE saved
       ELSE /\ pc' = "normal"
            /\ UNCHANGED <<ret, saved>>
    /\ UNCHANGED <<sshape, srate, a, afix, d, c, before>>
    /\ UNCHANGED avars

SamplerNext ==
    \/ \E s \in SampleShapes, r \in SampleRates : SampleUnchecked(s, r)
    \/ Sample
    \/ \E u0 \in Uniforms : GenAfix(u0)
    \/ \E z \in Normals : NormalDraw(z)
    \/ \E u0 \in Uniforms : UniformDraw(u0)

SamplerInit ==
    /\ args = Gamma(Two, Half)
    /\ res = new(Two, Half)
    /\ q = NoQuery
    /\ prev = NoQuery
    /\ SamplerIdle
    /\ saved = Untracked

SamplerSpec == SamplerInit /\ [][SamplerNext]_vars

\* The random source never blocks, and it is fair to the accepting outcome:
\* if again and again a normal draw is possible that leaves the inner loop
\* and admits an accepted uniform draw, such a draw is delivered again and
\* again, and likewise for the accepted uniform draw itself.  The two strong
\* fairness conditions are written out (SF_pc(A) is <>[]~ENABLED <<A>>_pc \/
\* []<><<A>>_pc) with their enabling conditions as state predicates.
CanAccept ==
    /\ pc = "uniform"
    /\ \E u0 \in Uniforms : Accept(u0, Square(x), Cube(v), d)

CanReachAccept ==
    /\ pc = "normal"
    /\ \E z \in Normals :
           /\ InnerExit(V(c, z))
           /\ \E u0 \in Uniforms : Accept(u0, Square(z), Cube(V(c, z)), d)

AcceptingNormal ==
    /\ pc = "normal"
    /\ pc' = "uniform"
    /\ \E z \in Normals :
           /\ z = x'
           /\ \E u0 \in Uniforms : Accept(u0, Square(z), Cube(V(c, z)), d)

AcceptedUniform == pc = "uniform" /\ pc' = "done"

FairSamplerSpec ==
    /\ SamplerInit
    /\ [][SamplerNext]_vars
    /\ WF_pc(pc = "afix" /\ pc' = "normal")
    /\ WF_pc(pc = "uniform" /\ pc' \in {"normal", "done"})
    /\ (<>[](~CanReachAccept) \/ []<><<AcceptingNormal>>_pc)
    /\ (<>[](~CanAccept) \/ []<><<AcceptedUniform>>_pc)

\* Calls one after the other, the first completed one kept in saved.
ReplayInit ==
    /\ args = Gamma(Two, Half)
    /\ res = new(Two, Half)
    /\ q = NoQuery
    /\ prev = NoQuery
    /\ SamplerIdle
    /\ saved = NoCall

ReplayNext ==
    \/ \E s \in ReplayShapes, r \in ReplayRates : SampleUnchecked(s, r)
    \/ Sample
    \/ \E u0 \in ReplayUniforms : GenAfix(u0)
    \/ \E z \in ReplayNormals : NormalDraw(z)
    \/ \E u0 \in ReplayUniforms : UniformDraw(u0)

ReplaySpec == ReplayInit /\ [][ReplayNext]_vars

(***************************************************************************)
(* Claims.                                                                  *)
(***************************************************************************)
BadParams(s, r) == is_nan(s) \/ is_nan(r) \/ Le(s, Zero) \/ Le(r, Zero)

\* C1: Gamma::new fails with BadParams exactly when shape or rate is NaN or
\* not above zero; otherwise (rate = +infinity included) it succeeds with
\* shape() and rate() equal to the arguments, so every constructed Gamma has
\* both fields non-NaN and strictly positive.
C1_NewContract ==
    res # NotCalled =>
        /\ (res = Err("BadParams")) <=> BadParams(args.shape, args.rate)
        /\ ~BadParams(args.shape, args.rate) =>
               res.ok /\ shape(res.g) = args.shape /\ rate(res.g) = args.rate
        /\ res.ok =>
               /\ ~is_nan(shape(res.g)) /\ Gt(shape(res.g), Zero)
               /\ ~is_nan(rate(res.g)) /\ Gt(rate(res.g), Zero)

C1_Witness ==
    /\ res.ok
    /\ is_infinite(args.rate)
    /\ shape(res.g) = args.shape
    /\ rate(res.g) = PInf

\* C2: cdf(x) follows its five cases in strict priority order: x <= 0 gives
\* 0 even for an infinite rate; x ULP-equal to shape with an infinite rate
\* gives 1; an infinite rate otherwise gives 0, also at x = +infinity; an
\* infinite x with a finite rate gives 1; otherwise gamma_lr(shape, x*rate).
C2_CdfPolicy ==
    q.op = "cdf" =>
        LET g == res.g
            qx == q.x
        IN  /\ Le(qx, Zero) => q.ret = Zero
            /\ (~Le(qx, Zero) /\ is_infinite(g.rate) /\ ulps_eq(qx, g.shape)) => q.ret = One
            /\ (~Le(qx, Zero) /\ is_infinite(g.rate) /\ ~ulps_eq(qx, g.shape)) => q.ret = Zero
            /\ (~Le(qx, Zero) /\ ~is_infinite(g.rate) /\ is_infinite(qx)) => q.ret = One
            /\ (~Le(qx, Zero) /\ ~is_infinite(g.rate) /\ ~is_infinite(qx)) =>
                   q.ret = gamma_lr(g.shape, Mul(qx, g.rate))

C2_Witness ==
    /\ q.op = "cdf"
    /\ is_infinite(res.g.rate)
    /\ ulps_eq(q.x, res.g.shape)
    /\ q.x # res.g.shape
    /\ Gt(q.x, Zero)
    /\ q.ret = One

\* C3: for every valid distribution cdf is non-decreasing in x,
\* cdf(0) = 0, and cdf(+infinity) = 1 when the rate is finite.
C3_CdfMonotone ==
    /\ (q.op = "cdf" /\ prev.op = "cdf" /\ Le(prev.x, q.x)) => Le(prev.ret, q.ret)
    /\ (q.op = "cdf" /\ q.x = Zero) => q.ret = Zero
    /\ (q.op = "cdf" /\ q.x = PInf /\ ~is_infinite(res.g.rate)) => q.ret = One

\* C4: for every valid distribution pdf(x) >= 0 for all x >= 0 and
\* pdf(x) = 0 for all x < 0.
C4_PdfNotNegative ==
    q.op = "pdf" =>
        /\ Ge(q.x, Zero) => Ge(q.ret, Zero)
        /\ Lt(q.x, Zero) => q.ret = Zero

\* C5: pdf(x) picks its branch in strict priority order: x < 0 gives 0; a
\* shape ULP-equal to 1 gives rate * exp(-rate * x); a shape above 160 gives
\* exp(ln_pdf(x)); an infinite x gives 0; otherwise the direct formula.
\* ln_pdf has the same branches in the log domain except the one for a
\* shape above 160.
C5_PdfBranches ==
    LET g == res.g
        qx == q.x
        unit == ulps_eq(g.shape, One)
        large == Gt(g.shape, LargeShape)
    IN  /\ q.op = "pdf" =>
            /\ Lt(qx, Zero) => q.ret = Zero
            /\ (~Lt(qx, Zero) /\ unit) => q.ret = Mul(g.rate, Exp(Neg(Mul(g.rate, qx))))
            /\ (~Lt(qx, Zero) /\ ~unit /\ large) => q.ret = Exp(ln_pdf(g, qx))
            /\ (~Lt(qx, Zero) /\ ~unit /\ ~large /\ is_infinite(qx)) => q.ret = Zero
            /\ (~Lt(qx, Zero) /\ ~unit /\ ~large /\ ~is_infinite(qx)) =>
                   q.ret = Div(Mul(Mul(Powf(g.rate, g.shape), Powf(qx, Sub(g.shape, One))),
                                   Exp(Neg(Mul(g.rate, qx)))),
                               gamma_fn(g.shape))
        /\ q.op = "ln_pdf" =>
            /\ Lt(qx, Zero) => q.ret = NInf
            /\ (~Lt(qx, Zero) /\ unit) => q.ret = Sub(Ln(g.rate), Mul(g.rate, qx))
            /\ (~Lt(qx, Zero) /\ ~unit /\ is_infinite(qx)) => q.ret = NInf
            /\ (~Lt(qx, Zero) /\ ~unit /\ ~is_infinite(qx)) =>
                   q.ret = Sub(Sub(Add(Mul(g.shape, Ln(g.rate)),
                                       Mul(Sub(g.shape, One), Ln(qx))),
                                   Mul(g.rate, qx)),
                               ln_gamma(g.shape))

C5_Witness ==
    /\ q.op = "pdf"
    /\ ulps_eq(res.g.shape, One)
    /\ res.g.shape # One
    /\ is_infinite(q.x)
    /\ Gt(q.x, Zero)
    /\ is_infinite(res.g.rate)
    /\ is_nan(q.ret)
InCall == pc \in {"afix", "normal", "uniform"}
LogComplete == ndraws <= MaxDraws
ValidCall == Gt(sshape, Zero) /\ Gt(srate, Zero)

\* C6: a call of sample_unchecked with shape > 0 and rate > 0 eventually
\* returns when the random source delivers, again and again, a normal draw
\* with 1 + c*x > 0 and a uniform draw that passes the acceptance test; and
\* the call returns by no other step than an accepted uniform draw.
C6_EventuallyReturns ==
    /\ (InCall /\ ValidCall) ~> (pc = "done")
    /\ [][(pc # "done" /\ pc' = "done") =>
              (pc = "uniform" /\ InnerExit(v) /\ Accept(u', x', v', d))]_vars

C6_Witness ==
    /\ pc = "done"
    /\ ValidCall
    /\ ndraws > MaxDraws

\* C7 as stated: after v is cubed and x squared in place the sampler accepts
\* exactly when u < 1 - 0.0331*x^2 or ln(u) < 0.5*x^2 + d*(1 - v - ln v),
\* x and v being the values held after the update, and returns
\* afix*d*v/rate; otherwise it starts another outer iteration.
C7_Original ==
    ~is_nan(u) =>
        /\ pc \in {"done", "normal"}
        /\ (pc = "done") <=>
               \/ Lt(u, Sub(One, Mul(Mul(K0331, x), x)))
               \/ Lt(Ln(u), Add(Mul(Half, Mul(x, x)), Mul(d, Sub(Sub(One, v), Ln(v)))))
        /\ pc = "done" => ret = Div(Mul(Mul(afix, d), v), srate)

\* C7 amended: the sampler accepts exactly when u < 1 - 0.0331*x^2 or
\* ln(u) < 0.5*x + d*(1 - v - ln v), x being the squared draw and v the cubed
\* value held after the update; it then returns afix*d*v/rate, and otherwise
\* starts another outer iteration.
C7_Acceptance ==
    ~is_nan(u) =>
        /\ pc \in {"done", "normal"}
        /\ (pc = "done") <=>
               \/ Lt(u, Sub(One, Mul(Mul(K0331, x), x)))
               \/ Lt(Ln(u), Add(Mul(Half, x), Mul(d, Sub(Sub(One, v), Ln(v)))))
        /\ pc = "done" => ret = Div(Mul(Mul(afix, d), v), srate)
        /\ (LogComplete /\ Len(draws) >= 2) =>
               LET z == draws[Len(draws) - 1].val
               IN  /\ x = Mul(z, z)
                   /\ v = Mul(Add(One, Mul(c, z)), Mul(Add(One, Mul(c, z)), Add(One, Mul(c, z))))

C7_Witness ==
    /\ pc = "done"
    /\ Gt(u, Zero)
    /\ ~Lt(u, Sub(One, Mul(Mul(K0331, x), x)))
    /\ Lt(Ln(u), Add(Mul(Half, x), Mul(d, Sub(Sub(One, v), Ln(v)))))

\* C8: the draws come in a fixed order: with shape < 1 one uniform draw
\* before the loop (afix = u^(1/shape), a = shape + 1), with shape >= 1 none
\* (afix = 1, a = shape); then each outer iteration is one or more normal
\* draws, repeated until 1 + c*x > 0, and exactly one uniform draw; after
\* an accepted uniform draw no draw follows.
First == IF Lt(sshape, One) THEN 1 ELSE 0
GoodAt(i) == Gt(Add(One, Mul(c, draws[i].val)), Zero)
AcceptedAt(i) ==
    LET z == draws[i - 1].val
        v3 == Mul(Add(One, Mul(c, z)), Mul(Add(One, Mul(c, z)), Add(One, Mul(c, z))))
        x2 == Mul(z, z)
    IN  \/ Lt(draws[i].val, Sub(One, Mul(Mul(K0331, x2), x2)))
        \/ Lt(Ln(draws[i].val), Add(Mul(Half, x2), Mul(d, Sub(Sub(One, v3), Ln(v3)))))

C8_DrawOrder ==
    (pc # "idle" /\ LogComplete) =>
        LET n == Len(draws)
        IN  /\ n = ndraws
            /\ pc = "afix" <=> (First = 1 /\ n = 0)
            /\ Lt(sshape, One) => a = Add(sshape, One)
            /\ Ge(sshape, One) => (a = sshape /\ afix = One)
            /\ (First = 1 /\ n >= 1) =>
                   (draws[1].k = "U" /\ afix = Powf(draws[1].val, Div(One, sshape)))
            /\ n > First => draws[First + 1].k = "N"
            /\ \A i \in (First + 1)..n :
                   /\ draws[i].k = "N" =>
                          /\ (i < n /\ GoodAt(i)) => draws[i + 1].k = "U"
                          /\ (i < n /\ ~GoodAt(i)) => draws[i + 1].k = "N"
                          /\ (i = n /\ GoodAt(i)) => pc = "uniform"
                          /\ (i = n /\ ~GoodAt(i)) => pc = "normal"
                   /\ draws[i].k = "U" =>
                          /\ draws[i - 1].k = "N" /\ GoodAt(i - 1)
                          /\ i < n => (draws[i + 1].k = "N" /\ ~AcceptedAt(i))
                          /\ i = n => (IF AcceptedAt(i) THEN pc = "done" ELSE pc = "normal")
            /\ pc = "done" => (n > First /\ draws[n].k = "U" /\ AcceptedAt(n))

C8_Witness ==
    /\ pc = "done"
    /\ LogComplete
    /\ Len(draws) = 4
    /\ Lt(sshape, One)
    /\ draws[1].k = "U"
    /\ draws[2].k = "N" /\ ~GoodAt(2)
    /\ draws[3].k = "N" /\ GoodAt(3)
    /\ draws[4].k = "U"

\* C9: the sampler carries no state between calls: a call with the shape,
\* the rate and the draws of an earlier call returns the same value after
\* the same number of draws, whatever was called in between; a call changes
\* nothing of the Gamma value.
IsPrefix(s1, s2) == Len(s1) <= Len(s2) /\ SubSeq(s2, 1, Len(s1)) = s1

C9_NoCarriedState ==
    /\ res = new(Two, Half) /\ args = Gamma(Two, Half)
    /\ (pc = "done" /\ LogComplete /\ saved # NoCall
            /\ saved.shape = sshape /\ saved.rate = srate
            /\ (IsPrefix(draws, saved.draws) \/ IsPrefix(saved.draws, draws)))
           => (draws = saved.draws /\ ret = saved.ret)

C9_Witness ==
    /\ pc = "done"
    /\ saved # NoCall
    /\ saved.shape = One
    /\ sshape = One
    /\ saved.rate = srate
    /\ draws = saved.draws
    /\ ret = saved.ret
    /\ before = Half
    /\ Len(draws) >= 4

\* C10 as stated: for a finite shape > 0 and a rate > 0 the boosted shape a
\* is >= 1, d = a - 1/3 > 0, c is a finite positive number, afix lies in
\* [0, 1], v > 0 whenever the acceptance test is evaluated, and every
\* returned variate is non-negative.
C10_Original ==
    (IsNum(sshape) /\ Gt(sshape, Zero) /\ Gt(srate, Zero)) =>
        /\ pc # "idle" => (Ge(a, One) /\ Ge(afix, Zero) /\ Le(afix, One))
        /\ pc \in {"normal", "uniform", "done"} =>
               (Gt(d, Zero) /\ IsNum(c) /\ Gt(c, Zero))
        /\ pc = "uniform" => Gt(v, Zero)
        /\ ~is_nan(u) => Gt(v, Zero)
        /\ pc = "done" => Ge(ret, Zero)

\* C10 amended: for a finite shape > 0 and a rate > 0 the boosted shape a is
\* >= 1, d = a - 1/3 > 0, c is finite and not negative, and positive unless
\* 9*d overflows to +infinity; afix lies in [0, 1], v > 0 whenever the
\* acceptance test is evaluated, and every returned variate is non-negative.
C10_SamplerInvariant ==
    (IsNum(sshape) /\ Gt(sshape, Zero) /\ Gt(srate, Zero)) =>
        /\ pc # "idle" => (Ge(a, One) /\ Ge(afix, Zero) /\ Le(afix, One))
        /\ pc \in {"normal", "uniform", "done"} =>
               /\ Gt(d, Zero)
               /\ ~is_nan(c) /\ ~is_infinite(c) /\ Ge(c, Zero)
               /\ ~is_infinite(Mul(Nine, d)) => Gt(c, Zero)
               /\ is_infinite(Mul(Nine, d)) => c = Zero
        /\ pc = "uniform" => Gt(v, Zero)
        /\ ~is_nan(u) => Gt(v, Zero)
        /\ pc = "done" => Ge(ret, Zero)

C10_Witness ==
    /\ pc = "done"
    /\ IsNum(sshape)
    /\ Lt(sshape, One)
    /\ Gt(afix, Zero)
    /\ Lt(afix, One)
    /\ Gt(ret, Zero)
    /\ ndraws >= 4
====
